---- MODULE Spec2Model ----
(***************************************************************************)
(* Model of the artifact extraction and patch application engine of        *)
(* poor_ai: core/file_handler.py (FileHandler: load_file, save_file,       *)
(* apply_result, clear) and core/response_processor.py (extract_code).     *)
(*                                                                         *)
(* Text is a sequence of tokens.  A token is a TLA+ string standing for    *)
(* one character ("a", " ", "-", "+", "\n", a digit; BT for a backtick) or for a short   *)
(* fixed run of characters that the code only ever tests as a whole        *)
(* ("@@", "#").  A line is a text without "\n".                            *)
(*                                                                         *)
(* project.json, which _update_project rewrites and only a load_file with  *)
(* wildcards reads, is not part of the state: _update_project catches its  *)
(* own exceptions (file_handler.py 73-75) and returns nothing.             *)
(***************************************************************************)
EXTENDS Integers, Sequences, FiniteSets, TLC

\* disk: the text of every file that exists, by path
\* current_files, contents, original_contents: the fields of FileHandler
\* last: what the last call returned and reported
\* trace: history of the calls of SpecPatch, their input and the text before
\* called_with, extracted: the argument of the call of extract_code and what it
\* returned or raised
\* uuid_count: the number of artifact ids drawn so far
\* unwritable: the paths for which mkdir or open for writing raises
VARIABLES disk, current_files, contents, original_contents, last, trace,
          called_with, extracted, uuid_count, unwritable

vars == <<disk, current_files, contents, original_contents, last, trace,
          called_with, extracted, uuid_count, unwritable>>

(***************************************************************************)
(* Bounds of the model.                                                    *)
(***************************************************************************)
MaxLines == 2
MaxHunkLines == 2

(***************************************************************************)
(* Python primitives used by the code.                                     *)
(***************************************************************************)
NL == "\n"

\* the token of one backtick character
BT == "backtick"

EmptyDict == [q \in {} |-> <<>>]

\* dict[key] = value
Put(d, k, v) == [q \in (DOMAIN d) \cup {k} |-> IF q = k THEN v ELSE d[q]]

\* dict.get(key, '')
Get(d, k) == IF k \in DOMAIN d THEN d[k] ELSE <<>>

\* index of the first "\n" of s at or after position i, 0 when there is none
RECURSIVE FindNL(_, _)
FindNL(s, i) ==
  IF i > Len(s) THEN 0
  ELSE IF s[i] = NL THEN i
  ELSE FindNL(s, i + 1)

\* str.splitlines(): a trailing newline opens no further (empty) line
RECURSIVE splitlines(_)
splitlines(s) ==
  IF s = <<>> THEN <<>>
  ELSE LET i == FindNL(s, 1)
       IN IF i = 0 THEN <<s>>
          ELSE <<SubSeq(s, 1, i - 1)>> \o splitlines(SubSeq(s, i + 1, Len(s)))

\* '\n'.join(lines)
RECURSIVE join(_)
join(lines) ==
  IF lines = <<>> THEN <<>>
  ELSE IF Len(lines) = 1 THEN lines[1]
  ELSE lines[1] \o <<NL>> \o join(Tail(lines))

\* line.startswith(tok) for a one-token prefix
startswith(line, tok) == Len(line) >= 1 /\ line[1] = tok

\* list[i] of Python for a 0-based index i: a negative index counts from the
\* end, and an index outside the list raises IndexError
InRange(lst, i) == IF i >= 0 THEN i < Len(lst) ELSE Len(lst) + i >= 0

PyIndex(lst, i) == IF i >= 0 THEN lst[i + 1] ELSE lst[Len(lst) + i + 1]

(***************************************************************************)
(* Errors raised inside apply_result.                                      *)
(***************************************************************************)
NoError == [kind |-> "none", line |-> 0]
ContextMismatch(n) == [kind |-> "Context mismatch", line |-> n]
RemovedMismatch(n) == [kind |-> "Removed line mismatch", line |-> n]
IndexError == [kind |-> "IndexError", line |-> 0]

(***************************************************************************)
(* Parsing of a diff (file_handler.py 193-221).                            *)
(***************************************************************************)
Digits == <<"0", "1", "2", "3", "4", "5", "6", "7", "8", "9">>

IsDigit(t) == \E i \in DOMAIN Digits : Digits[i] = t

\* int(match.group(n)) for a one-digit group
int(t) == (CHOOSE i \in DOMAIN Digits : Digits[i] = t) - 1

\* re.match(r'@@ -(\d+),(\d+) \+(\d+),(\d+) @@', line): anchored at the start
\* of the line only; every number of the model is one digit
HeaderMatch(line) ==
  /\ Len(line) >= 13
  /\ line[1] = "@@" /\ line[2] = " " /\ line[3] = "-" /\ IsDigit(line[4])
  /\ line[5] = "," /\ IsDigit(line[6]) /\ line[7] = " " /\ line[8] = "+"
  /\ IsDigit(line[9]) /\ line[10] = "," /\ IsDigit(line[11])
  /\ line[12] = " " /\ line[13] = "@@"

\* first index j >= i with diff_lines[j].startswith('@@'), or Len + 1
RECURSIVE HunkEnd(_, _)
HunkEnd(diff_lines, i) ==
  IF i > Len(diff_lines) THEN i
  ELSE IF startswith(diff_lines[i], "@@") THEN i
  ELSE HunkEnd(diff_lines, i + 1)

RECURSIVE ParseHunks(_, _)
ParseHunks(diff_lines, i) ==
  IF i > Len(diff_lines) THEN <<>>
  ELSE LET line == diff_lines[i]
       IN IF startswith(line, "@@") /\ HeaderMatch(line)
          THEN LET j == HunkEnd(diff_lines, i + 1)
               IN <<[original_start |-> int(line[4]),
                     original_count |-> int(line[6]),
                     new_start |-> int(line[9]),
                     new_count |-> int(line[11]),
                     lines |-> SubSeq(diff_lines, i + 1, j - 1)]>>
                  \o ParseHunks(diff_lines, j)
          ELSE ParseHunks(diff_lines, i + 1)

(***************************************************************************)
(* Application of the hunks (file_handler.py 223-253).  The walk state is  *)
(* [new_lines, pos, err]; err /= NoError is the exception raised.          *)
(***************************************************************************)
\* while pos < original_start: copy original_lines[pos] or break at the end
RECURSIVE CopyThrough(_, _, _, _)
CopyThrough(original_lines, new_lines, pos, original_start) ==
  IF pos < original_start /\ pos < Len(original_lines)
  THEN IF InRange(original_lines, pos)
       THEN CopyThrough(original_lines,
                        Append(new_lines, PyIndex(original_lines, pos)),
                        pos + 1, original_start)
       ELSE [new_lines |-> new_lines, pos |-> pos, err |-> IndexError]
  ELSE [new_lines |-> new_lines, pos |-> pos, err |-> NoError]

\* faulty variant of MismatchContext: reports the 0-based cursor
MismatchContextZeroBased(hunk_pos) == ContextMismatch(hunk_pos)

\* raise ValueError(f"Context mismatch at line {hunk_pos + 1}")
MismatchContext(hunk_pos) == ContextMismatch(hunk_pos + 1)

\* raise ValueError(f"Removed line mismatch at line {hunk_pos + 1}")
MismatchRemoved(hunk_pos) == RemovedMismatch(hunk_pos + 1)

\* faulty variant of RemovalMatches: the removed text is not compared
RemovalMatchesAnything(original_lines, hunk_pos, hunk_line) ==
  hunk_pos < Len(original_lines)

\* hunk_pos < len(original_lines) and hunk_line[1:] == original_lines[hunk_pos]
\* (the comparison is evaluated only under the guard; it raises IndexError
\* for hunk_pos = -1 on an empty list, see WalkHunk)
LineMatches(original_lines, hunk_pos, hunk_line) ==
  hunk_pos < Len(original_lines)
  /\ Tail(hunk_line) = PyIndex(original_lines, hunk_pos)

RemovalMatches(original_lines, hunk_pos, hunk_line) ==
  LineMatches(original_lines, hunk_pos, hunk_line)

RECURSIVE WalkHunk(_, _, _, _, _)
WalkHunk(original_lines, new_lines, hunk_pos, lines, k) ==
  IF k > Len(lines)
  THEN [new_lines |-> new_lines, pos |-> hunk_pos, err |-> NoError]
  ELSE LET hunk_line == lines[k]
           raises == hunk_pos < Len(original_lines)
                     /\ ~InRange(original_lines, hunk_pos)
       IN IF startswith(hunk_line, " ")
          THEN IF raises
               THEN [new_lines |-> new_lines, pos |-> hunk_pos, err |-> IndexError]
               ELSE IF LineMatches(original_lines, hunk_pos, hunk_line)
               THEN WalkHunk(original_lines,
                             Append(new_lines, PyIndex(original_lines, hunk_pos)),
                             hunk_pos + 1, lines, k + 1)
               ELSE [new_lines |-> new_lines, pos |-> hunk_pos,
                     err |-> MismatchContext(hunk_pos)]
          ELSE IF startswith(hunk_line, "-")
          THEN IF raises
               THEN [new_lines |-> new_lines, pos |-> hunk_pos, err |-> IndexError]
               ELSE IF RemovalMatches(original_lines, hunk_pos, hunk_line)
               THEN WalkHunk(original_lines, new_lines, hunk_pos + 1, lines, k + 1)
               ELSE [new_lines |-> new_lines, pos |-> hunk_pos,
                     err |-> MismatchRemoved(hunk_pos)]
          ELSE IF startswith(hunk_line, "+")
          THEN WalkHunk(original_lines, Append(new_lines, Tail(hunk_line)),
                        hunk_pos, lines, k + 1)
          ELSE WalkHunk(original_lines, new_lines, hunk_pos, lines, k + 1)

\* for hunk in hunks: copy through to original_start - 1, walk the hunk
RECURSIVE ApplyHunks(_, _, _, _, _)
ApplyHunks(original_lines, hunks, h, new_lines, pos) ==
  IF h > Len(hunks)
  THEN [new_lines |-> new_lines, pos |-> pos, err |-> NoError]
  ELSE LET original_start == hunks[h].original_start - 1
           c == CopyThrough(original_lines, new_lines, pos, original_start)
       IN IF c.err /= NoError THEN c
          ELSE LET w == WalkHunk(original_lines, c.new_lines, original_start,
                                 hunks[h].lines, 1)
               IN IF w.err /= NoError THEN w
                  ELSE ApplyHunks(original_lines, hunks, h + 1, w.new_lines, w.pos)

\* faulty variant of CopyTail: the lines after the last hunk are dropped
CopyTailNothing(original_lines, new_lines, pos) ==
  [new_lines |-> new_lines, pos |-> pos, err |-> NoError]

\* while pos < len(original_lines): new_lines.append(original_lines[pos])
RECURSIVE CopyTail(_, _, _)
CopyTail(original_lines, new_lines, pos) ==
  IF pos < Len(original_lines)
  THEN IF InRange(original_lines, pos)
       THEN CopyTail(original_lines,
                     Append(new_lines, PyIndex(original_lines, pos)), pos + 1)
       ELSE [new_lines |-> new_lines, pos |-> pos, err |-> IndexError]
  ELSE [new_lines |-> new_lines, pos |-> pos, err |-> NoError]

\* the diff branch on the text of the file: [text, err].  Without error,
\* text is '\n'.join(new_lines); with one, it is the output in progress
\* when the exception was raised, which the code never stores.
ApplyDiff(original_content, content) ==
  LET original_lines == splitlines(original_content)
      hunks == ParseHunks(splitlines(content), 1)
      a == ApplyHunks(original_lines, hunks, 1, <<>>, 0)
  IN IF a.err /= NoError THEN [text |-> join(a.new_lines), err |-> a.err]
     ELSE LET t == CopyTail(original_lines, a.new_lines, a.pos)
          IN [text |-> join(t.new_lines), err |-> t.err]

(***************************************************************************)
(* The non-diff branch (file_handler.py 254-276).                          *)
(***************************************************************************)
\* content.replace('```', '\`\`\`') (file_handler.py 10-12): left to right,
\* non-overlapping
RECURSIVE escape_backticks(_)
escape_backticks(content) ==
  IF content = <<>> THEN <<>>
  ELSE IF Len(content) >= 3 /\ content[1] = BT /\ content[2] = BT /\ content[3] = BT
  THEN <<"\\", BT, "\\", BT, "\\", BT>>
       \o escape_backticks(SubSeq(content, 4, Len(content)))
  ELSE <<content[1]>> \o escape_backticks(Tail(content))

\* str.isspace() on a token
IsSpace(t) == t \in {" ", "\t", NL}

\* the line without its leading whitespace (the \s* after ^)
RECURSIVE lstrip(_)
lstrip(line) ==
  IF line /= <<>> /\ IsSpace(line[1]) THEN lstrip(Tail(line)) ELSE line

\* the line without its trailing whitespace (the \s* before $)
RECURSIVE rstrip(_)
rstrip(line) ==
  IF line /= <<>> /\ IsSpace(line[Len(line)])
  THEN rstrip(SubSeq(line, 1, Len(line) - 1)) ELSE line

\* ^\s*OPEN.*CLOSE\s*$ for a one-token OPEN and a one-token CLOSE
Enclosed(line, open, close) ==
  LET l == rstrip(lstrip(line))
  IN Len(l) >= 2 /\ l[1] = open /\ l[Len(l)] = close

SupportedLanguages == {"python", "javascript", "html", "css"}

\* re.match(comment_patterns[language], line)
IsComment(language, line) ==
  IF language = "python" THEN startswith(lstrip(line), "#")
  ELSE IF language = "javascript"
  THEN startswith(lstrip(line), "//") \/ Enclosed(line, "/*", "*/")
  ELSE IF language = "html" THEN Enclosed(line, "<!--", "-->")
  ELSE IF language = "css" THEN Enclosed(line, "/*", "*/")
  ELSE FALSE

InList(x, lst) == \E i \in DOMAIN lst : lst[i] = x

\* [line for line in existing_lines if re.match(pattern, line)]
RECURSIVE CommentLines(_, _)
CommentLines(language, lines) ==
  IF lines = <<>> THEN <<>>
  ELSE (IF IsComment(language, lines[1]) THEN <<lines[1]>> ELSE <<>>)
       \o CommentLines(language, Tail(lines))

\* a variant that keeps every comment line
NotInKeepsAll(existing_comments, new_lines) == existing_comments

\* [c for c in existing_comments if c not in new_lines]
RECURSIVE NotIn(_, _)
NotIn(existing_comments, new_lines) ==
  IF existing_comments = <<>> THEN <<>>
  ELSE (IF InList(existing_comments[1], new_lines) THEN <<>>
        ELSE <<existing_comments[1]>>)
       \o NotIn(Tail(existing_comments), new_lines)

\* the comment lines at the head of the lines: those before the first line
\* that is not a comment
RECURSIVE LeadingCommentLines(_, _)
LeadingCommentLines(language, lines) ==
  IF lines = <<>> \/ ~IsComment(language, lines[1]) THEN <<>>
  ELSE <<lines[1]>> \o LeadingCommentLines(language, Tail(lines))

\* a variant that keeps the comment lines at the head of the file only
ReplaceContentLeadingOnly(cts, file_path, language, content) ==
  LET existing_comments ==
        IF file_path \in DOMAIN cts /\ language \in SupportedLanguages
        THEN LeadingCommentLines(language, splitlines(cts[file_path]))
        ELSE <<>>
      new_content == escape_backticks(content)
      comment_block == join(NotIn(existing_comments, splitlines(new_content)))
  IN IF existing_comments /= <<>> /\ comment_block /= <<>>
     THEN comment_block \o <<NL>> \o new_content
     ELSE new_content

\* lines 255-275: the text stored for a non-diff artifact
ReplaceContent(cts, file_path, language, content) ==
  LET existing_comments ==
        IF file_path \in DOMAIN cts /\ language \in SupportedLanguages
        THEN CommentLines(language, splitlines(cts[file_path]))
        ELSE <<>>
      new_content == escape_backticks(content)
      comment_block == join(NotIn(existing_comments, splitlines(new_content)))
  IN IF existing_comments /= <<>> /\ comment_block /= <<>>
     THEN comment_block \o <<NL>> \o new_content
     ELSE new_content

(***************************************************************************)
(* apply_result (file_handler.py 159-287).                                 *)
(***************************************************************************)
ProjectDir == "/proj"

\* the absolute file names of the model
AbsoluteNames == {"/abs.py"}

\* str(self.project_dir / filename): the file name itself when it is
\* absolute, and no normalisation of ".."
FilePath(filename) ==
  IF filename \in AbsoluteNames THEN filename
  ELSE ProjectDir \o "/" \o filename

\* Path(file_path).relative_to(self.project_dir) raises ValueError: the path
\* does not begin with the project directory
NotRelativeToProject(file_path) == file_path \in AbsoluteNames

\* filename.strip() on the file names of the model
strip_name(filename) == IF filename \in {"", " "} THEN "" ELSE filename

\* contents after the lazy load of lines 184-189
LazyLoad(cts, dsk, file_path) ==
  IF file_path \in DOMAIN cts THEN cts
  ELSE IF file_path \in DOMAIN dsk THEN Put(cts, file_path, dsk[file_path])
  ELSE Put(cts, file_path, <<>>)

\* a variant that appends the path without looking for it
RegisterAlways(files, file_path) == Append(files, file_path)

\* if file_path not in self.current_files: append
Register(files, file_path) ==
  IF InList(file_path, files) THEN files ELSE Append(files, file_path)

\* faulty variant of ApplyItem: a failed diff leaves its output in progress
\* in the buffer
ApplyItemStoresPartial(cts, files, dsk, item) ==
  LET filename == strip_name(item.filename)
      file_path == FilePath(filename)
  IN IF filename = "" \/ item.content = <<>>
     THEN [contents |-> cts, current_files |-> files, err |-> NoError]
     ELSE IF item.is_diff
     THEN LET loaded == LazyLoad(cts, dsk, file_path)
              r == ApplyDiff(loaded[file_path], item.content)
          IN [contents |-> Put(loaded, file_path, r.text),
              current_files |-> IF r.err /= NoError THEN files
                                ELSE Register(files, file_path),
              err |-> r.err]
     ELSE [contents |-> Put(cts, file_path,
                            ReplaceContent(cts, file_path, item.language,
                                           item.content)),
           current_files |-> Register(files, file_path),
           err |-> NoError]

\* one iteration of the loop over result: [contents, current_files, err]
ApplyItem(cts, files, dsk, item) ==
  LET filename == strip_name(item.filename)
      file_path == FilePath(filename)
  IN IF filename = "" \/ item.content = <<>>
     THEN [contents |-> cts, current_files |-> files, err |-> NoError]
     ELSE IF item.is_diff
     THEN LET loaded == LazyLoad(cts, dsk, file_path)
              r == ApplyDiff(loaded[file_path], item.content)
          IN IF r.err /= NoError
             THEN [contents |-> loaded, current_files |-> files, err |-> r.err]
             ELSE [contents |-> Put(loaded, file_path, r.text),
                   current_files |-> Register(files, file_path),
                   err |-> NoError]
     ELSE [contents |-> Put(cts, file_path,
                            ReplaceContent(cts, file_path, item.language,
                                           item.content)),
           current_files |-> Register(files, file_path),
           err |-> NoError]

\* the loop from item i on; an exception ends it (the except of line 284).
\* failed is the index of the item that raised (0: none) and pre the contents
\* when its iteration began.
RECURSIVE ApplyFrom(_, _, _, _, _)
ApplyFrom(cts, files, dsk, result, i) ==
  IF i > Len(result)
  THEN [contents |-> cts, current_files |-> files, ok |-> TRUE,
        err |-> NoError, failed |-> 0, pre |-> cts]
  ELSE LET r == ApplyItem(cts, files, dsk, result[i])
       IN IF r.err /= NoError
          THEN [contents |-> r.contents, current_files |-> r.current_files,
                ok |-> FALSE, err |-> r.err, failed |-> i, pre |-> cts]
          ELSE ApplyFrom(r.contents, r.current_files, dsk, result, i + 1)

ApplyResult(cts, files, dsk, result) ==
  IF result = <<>>
  THEN [contents |-> cts, current_files |-> files, ok |-> FALSE,
        err |-> NoError, failed |-> 0, pre |-> cts]
  ELSE ApplyFrom(cts, files, dsk, result, 1)

apply_result(result) ==
  \E r \in {ApplyResult(contents, current_files, disk, result)} :
     /\ contents' = r.contents
     /\ current_files' = r.current_files
     /\ last' = [op |-> "apply_result", ok |-> r.ok, err |-> r.err,
                 failed |-> r.failed]
     /\ UNCHANGED <<disk, original_contents>>

(***************************************************************************)
(* load_file (file_handler.py 77-126) for explicit paths (no wildcard).    *)
(***************************************************************************)
\* a variant in which the first missing file ends the loop
RECURSIVE LoadFromStopAtMissing(_, _, _, _, _, _, _)
LoadFromStopAtMissing(cts, orig, files, dsk, files_to_load, i, success) ==
  IF i > Len(files_to_load)
  THEN [contents |-> cts, original_contents |-> orig,
        current_files |-> files, success |-> success]
  ELSE LET file_path == FilePath(files_to_load[i])
       IN IF file_path \notin DOMAIN dsk
          THEN [contents |-> cts, original_contents |-> orig,
                current_files |-> files, success |-> FALSE]
          ELSE LoadFromStopAtMissing(Put(cts, file_path, dsk[file_path]),
                                     Put(orig, file_path, dsk[file_path]),
                                     Register(files, file_path),
                                     dsk, files_to_load, i + 1, success)

\* the loop of lines 109-121: [contents, original_contents, current_files,
\* success]
RECURSIVE LoadFrom(_, _, _, _, _, _, _)
LoadFrom(cts, orig, files, dsk, files_to_load, i, success) ==
  IF i > Len(files_to_load)
  THEN [contents |-> cts, original_contents |-> orig,
        current_files |-> files, success |-> success]
  ELSE LET file_path == FilePath(files_to_load[i])
       IN IF file_path \notin DOMAIN dsk
          THEN LoadFrom(cts, orig, files, dsk, files_to_load, i + 1, FALSE)
          ELSE LoadFrom(Put(cts, file_path, dsk[file_path]),
                        Put(orig, file_path, dsk[file_path]),
                        Register(files, file_path),
                        dsk, files_to_load, i + 1, success)

load_file(paths) ==
  \E r \in {LoadFrom(contents, original_contents, current_files, disk,
                     paths, 1, TRUE)} :
     /\ contents' = r.contents
     /\ original_contents' = r.original_contents
     /\ current_files' = r.current_files
     /\ last' = [op |-> "load_file", ok |-> r.success, paths |-> paths]
     /\ UNCHANGED disk

(***************************************************************************)
(* save_file (file_handler.py 128-157).                                    *)
(***************************************************************************)
\* a variant that writes the changed files and keeps their original text
RECURSIVE SaveFromKeepsOriginal(_, _, _, _, _, _, _)
SaveFromKeepsOriginal(dsk, cts, orig, files, unw, i, changed_files) ==
  IF i > Len(files)
  THEN [disk |-> dsk, original_contents |-> orig,
        changed_files |-> changed_files, raised |-> FALSE]
  ELSE LET file_path == files[i]
           current_content == Get(cts, file_path)
           original_content == Get(orig, file_path)
       IN IF current_content /= original_content
          THEN IF file_path \in unw
               THEN [disk |-> dsk, original_contents |-> orig,
                     changed_files |-> changed_files, raised |-> TRUE]
               ELSE SaveFromKeepsOriginal(Put(dsk, file_path, current_content),
                                          cts, orig, files, unw, i + 1,
                                          Append(changed_files, file_path))
          ELSE SaveFromKeepsOriginal(dsk, cts, orig, files, unw, i + 1,
                                     changed_files)

\* the loop of lines 135-145: [disk, original_contents, changed_files,
\* raised].  mkdir (line 140) or open (line 141) raises for a path that
\* cannot be written (unw), and relative_to (line 145) raises, after the
\* write, for a path that does not begin with the project directory; the
\* exception leaves the loop, and what was written stays written.
RECURSIVE SaveFrom(_, _, _, _, _, _, _)
SaveFrom(dsk, cts, orig, files, unw, i, changed_files) ==
  IF i > Len(files)
  THEN [disk |-> dsk, original_contents |-> orig,
        changed_files |-> changed_files, raised |-> FALSE]
  ELSE LET file_path == files[i]
           current_content == Get(cts, file_path)
           original_content == Get(orig, file_path)
       IN IF current_content /= original_content
          THEN IF file_path \in unw
               THEN [disk |-> dsk, original_contents |-> orig,
                     changed_files |-> changed_files, raised |-> TRUE]
               ELSE IF NotRelativeToProject(file_path)
               THEN [disk |-> Put(dsk, file_path, current_content),
                     original_contents |-> Put(orig, file_path, current_content),
                     changed_files |-> Append(changed_files, file_path),
                     raised |-> TRUE]
               ELSE SaveFrom(Put(dsk, file_path, current_content), cts,
                             Put(orig, file_path, current_content), files, unw,
                             i + 1, Append(changed_files, file_path))
          ELSE SaveFrom(dsk, cts, orig, files, unw, i + 1, changed_files)

\* lines 128-157: False without files and when the loop raised (154-157),
\* True otherwise
save_file ==
  IF current_files = <<>>
  THEN /\ last' = [op |-> "save_file", ok |-> FALSE, changed_files |-> <<>>]
       /\ UNCHANGED <<disk, current_files, contents, original_contents>>
  ELSE \E r \in {SaveFrom(disk, contents, original_contents, current_files,
                          unwritable, 1, <<>>)} :
          /\ disk' = r.disk
          /\ original_contents' = r.original_contents
          /\ last' = [op |-> "save_file", ok |-> ~r.raised,
                      changed_files |-> r.changed_files]
          /\ UNCHANGED <<current_files, contents>>

(***************************************************************************)
(* clear (file_handler.py 289-294).                                        *)
(***************************************************************************)
\* the buffered paths
Buffered(files) == {files[n] : n \in DOMAIN files}

\* the buffered text of the path differs from its original text
Dirty(cts, orig, file_path) == Get(cts, file_path) /= Get(orig, file_path)

\* the paths of the buffer whose text differs from their original text
DirtyPaths(cts, orig, files) ==
  {files[n] : n \in {m \in DOMAIN files : Get(cts, files[m]) /= Get(orig, files[m])}}

\* a variant that forgets the list of files and keeps the texts
clearKeepsContents ==
  /\ current_files' = <<>>
  /\ last' = [op |-> "clear",
              dropped |-> DirtyPaths(contents, original_contents, current_files)]
  /\ UNCHANGED <<disk, contents, original_contents>>

\* lines 289-294; last records the dirty paths the call dropped
clear ==
  /\ current_files' = <<>>
  /\ contents' = EmptyDict
  /\ original_contents' = EmptyDict
  /\ last' = [op |-> "clear",
              dropped |-> DirtyPaths(contents, original_contents, current_files)]
  /\ UNCHANGED disk

(***************************************************************************)
(* extract_code (response_processor.py 12-218).                            *)
(*                                                                         *)
(* A response is a text of tokens.  Words ("python", "app.py", "x=1") and  *)
(* the pieces of the diff markers ("---", "+++", "a/", "b/", "--git") are  *)
(* tokens of their own; the tests the code makes on characters ('.' in,    *)
(* ' ' in, startswith) are made on the tokens that hold these characters.  *)
(* A JSON document is one token, and JsonValue gives what json.loads       *)
(* returns for it.                                                         *)
(***************************************************************************)
\* escape_backticks of response_processor.py 8-10: each run of three
\* backticks becomes three escapes of six characters, backslash u0060
RECURSIVE escape_backticks_rp(_)
escape_backticks_rp(content) ==
  IF content = <<>> THEN <<>>
  ELSE IF Len(content) >= 3 /\ content[1] = BT /\ content[2] = BT /\ content[3] = BT
  THEN <<"\\u0060", "\\u0060", "\\u0060">>
       \o escape_backticks_rp(SubSeq(content, 4, Len(content)))
  ELSE <<content[1]>> \o escape_backticks_rp(Tail(content))

\* str.strip()
strip(text) == rstrip(lstrip(text))

\* str.rstrip('\n')
RECURSIVE rstrip_nl(_)
rstrip_nl(text) ==
  IF text /= <<>> /\ text[Len(text)] = NL
  THEN rstrip_nl(SubSeq(text, 1, Len(text) - 1)) ELSE text

\* text[i:] starts with pat
At(text, i, pat) ==
  /\ i >= 1
  /\ i + Len(pat) - 1 <= Len(text)
  /\ SubSeq(text, i, i + Len(pat) - 1) = pat

\* index of the first occurrence of pat in text at or after i, 0 when none
Find(text, i, pat) ==
  LET Q == {q \in i..Len(text) : At(text, q, pat)}
  IN IF Q = {} THEN 0 ELSE CHOOSE q \in Q : \A r \in Q : q <= r

\* pat in text
Contains(text, pat) == Find(text, 1, pat) /= 0

\* index of the "\n" that ends the line of position i, Len(text) + 1 when the
\* line is the last one
LineEnd(text, i) ==
  LET e == FindNL(text, i) IN IF e = 0 THEN Len(text) + 1 ELSE e

\* pre.split('\n')[-1]: the text after the last "\n"
RECURSIVE LastLine(_)
LastLine(text) ==
  LET i == FindNL(text, 1)
  IN IF i = 0 THEN text ELSE LastLine(SubSeq(text, i + 1, Len(text)))

\* the markers the patterns and the prefix tests spell out
Fence3 == <<BT, BT, BT>>
Fence4 == <<BT, BT, BT, BT>>
DashA == <<"---", " ", "a/">>
PlusB == <<"+++", " ", "b/">>
DiffGit == <<"diff", " ", "--git">>
DiffGitA == <<"diff", " ", "--git", " ", "a/">>
SpaceA == <<" ", "a/">>
SpaceB == <<" ", "b/">>

(***************************************************************************)
(* json.loads on the texts of the model.                                   *)
(***************************************************************************)
\* JSON values: a string holds its text, null and numbers hold nothing the
\* code could use
Str(text) == [t |-> "str", v |-> text]
Null == [t |-> "null"]
Num(n) == [t |-> "num", n |-> n]
Dict(fields) == [t |-> "dict", fields |-> fields]
List(items) == [t |-> "list", items |-> items]

\* "@@ -1,1 +1,1 @@", "-a", "+b"
HunkText == <<"@@", " ", "-", "1", ",", "1", " ", "+", "1", ",", "1", " ", "@@", NL,
              "-", "a", NL, "+", "b">>

\* the JSON documents of the model; Doc_OneFile is the response of Scenario B
Doc_OneFile ==
  "[{\"filename\":\"a.py\",\"language\":\"python\",\"content\":\"x=1\"}]"
Doc_TwoFiles ==
  "[{\"filename\":\"a.py\",\"content\":\"x=1\"},{\"filename\":\"b.py\",\"language\":\"Python\",\"content\":\"y=2\"}]"
Doc_NoContent == "[{\"filename\":\"a.py\"}]"
Doc_Object == "{\"filename\":\"a.py\",\"content\":\"x=1\"}"
Doc_NullFilename == "[{\"filename\":null,\"content\":\"x=1\"}]"
Doc_NumberContent == "[7,{\"filename\":\"a.py\",\"content\":7}]"

\* a content of three backticks, written with the escapes of JSON
Doc_Fences == "[{\"filename\":\"a.md\",\"content\":\"\\u0060\\u0060\\u0060\"}]"
Doc_Padded == "[{\"filename\":\" a.py \",\"content\":\"x=1\"}]"
Doc_Lacking ==
  "[{\"filename\":\"a.py\",\"content\":\"x=1\"},{\"content\":\"y=2\"},{\"filename\":\"c.py\"},{\"filename\":\"b.py\",\"content\":\"y=2\"}]"
Doc_Diff ==
  "[{\"filename\":\"a.py\",\"language\":\"diff\",\"content\":\"@@ -1,1 +1,1 @@\\n-a\\n+b\"}]"

JsonDocs ==
  {Doc_OneFile, Doc_TwoFiles, Doc_NoContent, Doc_Object, Doc_NullFilename,
   Doc_NumberContent, Doc_Fences, Doc_Padded, Doc_Lacking, Doc_Diff}

JsonValue(tok) ==
  CASE tok = Doc_OneFile ->
         List(<<Dict([filename |-> Str(<<"a.py">>), language |-> Str(<<"python">>),
                      content |-> Str(<<"x=1">>)])>>)
    [] tok = Doc_TwoFiles ->
         List(<<Dict([filename |-> Str(<<"a.py">>), content |-> Str(<<"x=1">>)]),
                Dict([filename |-> Str(<<"b.py">>), language |-> Str(<<"Python">>),
                      content |-> Str(<<"y=2">>)])>>)
    [] tok = Doc_NoContent -> List(<<Dict([filename |-> Str(<<"a.py">>)])>>)
    [] tok = Doc_Object ->
         Dict([filename |-> Str(<<"a.py">>), content |-> Str(<<"x=1">>)])
    [] tok = Doc_NullFilename ->
         List(<<Dict([filename |-> Null, content |-> Str(<<"x=1">>)])>>)
    [] tok = Doc_NumberContent ->
         List(<<Num(7), Dict([filename |-> Str(<<"a.py">>), content |-> Num(7)])>>)
    [] tok = Doc_Fences ->
         List(<<Dict([filename |-> Str(<<"a.md">>), content |-> Str(<<BT, BT, BT>>)])>>)
    [] tok = Doc_Padded ->
         List(<<Dict([filename |-> Str(<<" ", "a.py", " ">>),
                      content |-> Str(<<"x=1">>)])>>)
    [] tok = Doc_Lacking ->
         List(<<Dict([filename |-> Str(<<"a.py">>), content |-> Str(<<"x=1">>)]),
                Dict([content |-> Str(<<"y=2">>)]),
                Dict([filename |-> Str(<<"c.py">>)]),
                Dict([filename |-> Str(<<"b.py">>), content |-> Str(<<"y=2">>)])>>)
    [] tok = Doc_Diff ->
         List(<<Dict([filename |-> Str(<<"a.py">>), language |-> Str(<<"diff">>),
                      content |-> Str(HunkText)])>>)

\* json.loads(text): the value, or JSONDecodeError for a text that is no
\* JSON document
json_loads(text) ==
  IF Len(text) = 1 /\ text[1] \in JsonDocs
  THEN [ok |-> TRUE, value |-> JsonValue(text[1])]
  ELSE IF Len(text) = 1 /\ IsDigit(text[1])
  THEN [ok |-> TRUE, value |-> Num(int(text[1]))]
  ELSE [ok |-> FALSE]

\* the tokens that hold a '.' or a '/'
DotSlashTokens ==
  {"app.py", "a.py", "b.py", "f.py", "a/", "b/"}
    \cup (JsonDocs \ {Doc_NullFilename})

\* '.' in text or '/' in text
HasDotOrSlash(text) == \E i \in DOMAIN text : text[i] \in DotSlashTokens

\* the tokens that hold a ' '
SpaceTokens == {" ", Doc_Padded, Doc_Diff}

\* ' ' in text
HasSpace(text) == \E i \in DOMAIN text : text[i] \in SpaceTokens

\* str.lower() on the tokens of the model
lower(text) == [i \in DOMAIN text |-> IF text[i] = "Python" THEN "python" ELSE text[i]]

\* bool(value) of Python
Truthy(value) ==
  CASE value.t = "str" -> value.v /= <<>>
    [] value.t = "null" -> FALSE
    [] value.t = "num" -> value.n /= 0
    [] OTHER -> TRUE

\* item.get(name, '')
get(item, name) ==
  IF name \in DOMAIN item.fields THEN item.fields[name] ELSE Str(<<>>)

\* the state of a run of extract_code: the artifacts appended so far, and
\* the exception that ended the run
Running(results) == [results |-> results, raised |-> "none"]
Raised(exception) == [results |-> <<>>, raised |-> exception]

\* a variant in which an item without filename or content ends the loop
RECURSIVE JsonItemsStopAtLacking(_, _, _, _)
JsonItemsStopAtLacking(items, i, results, fenced) ==
  IF i > Len(items) THEN Running(results)
  ELSE LET item == items[i]
       IN IF item.t /= "dict" THEN JsonItemsStopAtLacking(items, i + 1, results, fenced)
          ELSE LET filename == get(item, "filename")
                   language == get(item, "language")
                   content == get(item, "content")
               IN IF filename.t /= "str" \/ language.t /= "str"
                  THEN Raised("AttributeError")
                  ELSE IF strip(filename.v) = <<>> \/ ~Truthy(content)
                  THEN Running(results)
                  ELSE IF content.t /= "str" THEN Raised("AttributeError")
                  ELSE JsonItemsStopAtLacking(items, i + 1,
                         Append(results,
                           IF fenced
                           THEN [filename |-> strip(filename.v),
                                 content |-> escape_backticks_rp(content.v),
                                 language |-> lower(strip(language.v)),
                                 short |-> get(item, "short"),
                                 detailed |-> get(item, "detailed"),
                                 is_diff |-> FALSE]
                           ELSE [filename |-> strip(filename.v),
                                 content |-> escape_backticks_rp(content.v),
                                 language |-> strip(language.v),
                                 is_diff |-> FALSE]),
                         fenced)

\* one pass of the loop over the items of a JSON array (lines 29-45 when
\* fenced is FALSE, lines 60-78 when it is TRUE)
RECURSIVE JsonItems(_, _, _, _)
JsonItems(items, i, results, fenced) ==
  IF i > Len(items) THEN Running(results)
  ELSE LET item == items[i]
       IN IF item.t /= "dict" THEN JsonItems(items, i + 1, results, fenced)
          ELSE LET filename == get(item, "filename")
                   language == get(item, "language")
                   content == get(item, "content")
               IN IF filename.t /= "str" \/ language.t /= "str"
                  THEN Raised("AttributeError")
                  ELSE IF strip(filename.v) = <<>> \/ ~Truthy(content)
                  THEN JsonItems(items, i + 1, results, fenced)
                  ELSE IF content.t /= "str" THEN Raised("AttributeError")
                  ELSE JsonItems(items, i + 1,
                         Append(results,
                           IF fenced
                           THEN [filename |-> strip(filename.v),
                                 content |-> escape_backticks_rp(content.v),
                                 language |-> lower(strip(language.v)),
                                 short |-> get(item, "short"),
                                 detailed |-> get(item, "detailed"),
                                 is_diff |-> FALSE]
                           ELSE [filename |-> strip(filename.v),
                                 content |-> escape_backticks_rp(content.v),
                                 language |-> strip(language.v),
                                 is_diff |-> FALSE]),
                         fenced)

(***************************************************************************)
(* The regular expressions of extract_code, matched as re does: at the     *)
(* leftmost position, greedy and lazy quantifiers as written, $ before     *)
(* every "\n" and at the end (re.MULTILINE).                               *)
(***************************************************************************)
NoMatch == [found |-> FALSE]

Match(start, end, g1, g2) ==
  [found |-> TRUE, start |-> start, end |-> end, g1 |-> g1, g2 |-> g2]

\* line 53: three backticks, an optional "json", "\n", a lazy body, "\n" and
\* three backticks
FencedJsonAt(text, i) ==
  IF ~At(text, i, Fence3) THEN NoMatch
  ELSE LET p == IF At(text, i + 3, <<"json">>) THEN i + 4 ELSE i + 3
       IN IF ~At(text, p, <<NL>>) THEN NoMatch
          ELSE LET q == Find(text, p + 1, <<NL>> \o Fence3)
               IN IF q = 0 THEN NoMatch
                  ELSE Match(i, q + 4, <<>>, SubSeq(text, p + 1, q - 1))

\* line 115: four backticks, the greedy rest of the line, an optional "\n", a
\* lazy body, four backticks.  The rest of the line is given back up to the
\* last closing fence of the line when no fence follows the line.
FourFenceAt(text, i) ==
  IF ~At(text, i, Fence4) THEN NoMatch
  ELSE LET e == LineEnd(text, i + 4)
           q1 == IF e <= Len(text) THEN Find(text, e + 1, Fence4) ELSE 0
           Q == {q \in (i + 4)..(e - 1) : At(text, q, Fence4)}
       IN IF q1 /= 0
          THEN Match(i, q1 + 4, SubSeq(text, i + 4, e - 1),
                     SubSeq(text, e + 1, q1 - 1))
          ELSE IF Q /= {}
          THEN LET q == CHOOSE q \in Q : \A r \in Q : r <= q
               IN Match(i, q + 4, SubSeq(text, i + 4, q - 1), <<>>)
          ELSE NoMatch

\* line 153: three backticks, the rest of the line, "\n", a lazy body, "\n"
\* and three backticks
TripleFenceAt(text, i) ==
  IF ~At(text, i, Fence3) THEN NoMatch
  ELSE LET e == LineEnd(text, i + 3)
       IN IF e > Len(text) THEN NoMatch
          ELSE LET q == Find(text, e + 1, <<NL>> \o Fence3)
               IN IF q = 0 THEN NoMatch
                  ELSE Match(i, q + 4, SubSeq(text, i + 3, e - 1),
                             SubSeq(text, e + 1, q - 1))

\* the end of a lazy body that stops before stop or at $: the first position
\* at or after p that is the end of the text, a "\n", or the start of stop
BodyEnd(text, p, stop) ==
  CHOOSE q \in p..(Len(text) + 1) :
    /\ q > Len(text) \/ text[q] = NL \/ At(text, q, stop)
    /\ \A r \in p..(q - 1) : ~(text[r] = NL \/ At(text, r, stop))

\* a line "marker + one character or more + \n" at position i: the index of
\* its "\n", 0 when there is no such line
MarkedLine(text, i, marker) ==
  IF ~At(text, i, marker) THEN 0
  ELSE LET e == LineEnd(text, i + Len(marker))
       IN IF e > i + Len(marker) /\ e <= Len(text) THEN e ELSE 0

\* line 192: "--- a/" file "\n" "+++ b/" anything "\n" body
UnifiedDiffAt(text, i) ==
  LET e1 == MarkedLine(text, i, DashA)
      e2 == IF e1 = 0 THEN 0 ELSE MarkedLine(text, e1 + 1, PlusB)
  IN IF e2 = 0 THEN NoMatch
     ELSE LET q == BodyEnd(text, e2 + 1, DashA)
          IN Match(i, q, SubSeq(text, i + 3, e1 - 1), SubSeq(text, e2 + 1, q - 1))

\* line 205: "diff --git a/" file " b/" anything "\n", the "--- a/" line, the
\* "+++ b/" line, body
GitDiffAt(text, i) ==
  IF ~At(text, i, DiffGitA) THEN NoMatch
  ELSE LET e == LineEnd(text, i + 5)
           K == {k \in (i + 6)..(e - 3) : At(text, k, SpaceB)}
           e1 == IF K = {} \/ e > Len(text) THEN 0
                 ELSE MarkedLine(text, e + 1, DashA)
           e2 == IF e1 = 0 THEN 0 ELSE MarkedLine(text, e1 + 1, PlusB)
       IN IF e2 = 0 THEN NoMatch
          ELSE LET k == CHOOSE k \in K : \A r \in K : k <= r
                   q == BodyEnd(text, e2 + 1, DiffGit)
               IN Match(i, q, SubSeq(text, i + 5, k - 1),
                        SubSeq(text, e2 + 1, q - 1))

MatchAt(pattern, text, i) ==
  CASE pattern = "fenced json" -> FencedJsonAt(text, i)
    [] pattern = "four fence" -> FourFenceAt(text, i)
    [] pattern = "triple fence" -> TripleFenceAt(text, i)
    [] pattern = "unified diff" -> UnifiedDiffAt(text, i)
    [] pattern = "git diff" -> GitDiffAt(text, i)

\* pattern.finditer(text): the matches from left to right, each search
\* starting where the match before it ended
RECURSIVE finditer(_, _, _)
finditer(pattern, text, i) ==
  IF i > Len(text) THEN <<>>
  ELSE LET m == MatchAt(pattern, text, i)
       IN IF m.found THEN <<m>> \o finditer(pattern, text, m.end)
          ELSE finditer(pattern, text, i + 1)

\* a variant that reads the first item of the array only
WholeJsonFirstOnly(response) ==
  LET json_data == json_loads(strip(response))
  IN IF json_data.ok /\ json_data.value.t = "list"
     THEN JsonItems(SubSeq(json_data.value.items, 1, 1), 1, <<>>, FALSE)
     ELSE Running(<<>>)

(***************************************************************************)
(* The strategies.                                                         *)
(***************************************************************************)
\* lines 25-50: the whole response as a JSON array
WholeJson(response) ==
  LET json_data == json_loads(strip(response))
  IN IF json_data.ok /\ json_data.value.t = "list"
     THEN JsonItems(json_data.value.items, 1, <<>>, FALSE)
     ELSE Running(<<>>)

\* lines 54-82: the fenced blocks that hold a JSON array; the loop returns at
\* the first block that leaves results not empty
RECURSIVE FencedJson(_, _, _)
FencedJson(matches, n, results) ==
  IF n > Len(matches) THEN [results |-> results, raised |-> "none", returned |-> FALSE]
  ELSE LET json_data == json_loads(strip(matches[n].g2))
       IN IF json_data.ok /\ json_data.value.t = "list"
          THEN LET r == JsonItems(json_data.value.items, 1, results, TRUE)
               IN IF r.raised /= "none"
                  THEN [results |-> <<>>, raised |-> r.raised, returned |-> FALSE]
                  ELSE IF r.results /= <<>>
                  THEN [results |-> r.results, raised |-> "none", returned |-> TRUE]
                  ELSE FencedJson(matches, n + 1, r.results)
          ELSE FencedJson(matches, n + 1, results)

\* lines 86-112: the response without fence and without diff marker
RawContent(response) ==
  LET lines == splitlines(response)
      first == strip(lines[1])
  IN IF Len(lines) /= 1 /\ ~HasSpace(first) /\ HasDotOrSlash(first)
     THEN [filename |-> first,
           content |-> escape_backticks_rp(rstrip(join(Tail(lines)))),
           language |-> <<>>, is_diff |-> FALSE]
     ELSE [filename |-> <<>>, content |-> escape_backticks_rp(strip(response)),
           language |-> <<>>, is_diff |-> FALSE]

\* last.startswith(('```', 'diff', '----', '````'))
StartsWithMarker(last_line) ==
  At(last_line, 1, Fence3) \/ At(last_line, 1, <<"diff">>)

\* lines 120-126 and 158-164: the last line before the fence, when it is not
\* blank and starts with no marker
FilenameBefore(response, start) ==
  LET pre == rstrip_nl(SubSeq(response, 1, start - 1))
      last_line == IF pre = <<>> THEN <<>> ELSE strip(LastLine(pre))
  IN IF last_line /= <<>> /\ ~StartsWithMarker(last_line) THEN last_line ELSE <<>>

\* line.split(' a/')[1].split(' b/')[0]
BetweenAAndB(line) ==
  LET a == Find(line, 1, SpaceA)
      rest == SubSeq(line, a + 2, Len(line))
      a2 == Find(rest, 1, SpaceA)
      part == IF a2 = 0 THEN rest ELSE SubSeq(rest, 1, a2 - 1)
      b == Find(part, 1, SpaceB)
  IN IF b = 0 THEN part ELSE SubSeq(part, 1, b - 1)

\* lines 135-141 and 173-179: the file name of the first header line of a
\* fenced diff, filename when it has none
RECURSIVE DiffFilename(_, _, _)
DiffFilename(diff_lines, n, filename) ==
  IF n > Len(diff_lines) THEN filename
  ELSE IF At(diff_lines[n], 1, DashA)
  THEN strip(SubSeq(diff_lines[n], 4, Len(diff_lines[n])))
  ELSE IF At(diff_lines[n], 1, DiffGitA) THEN strip(BetweenAAndB(diff_lines[n]))
  ELSE DiffFilename(diff_lines, n + 1, filename)

\* lines 117-143 and 155-181: the artifact of one fenced block
FencedBlock(response, match) ==
  LET lang_line == strip(match.g1)
      block == strip(match.g2)
      named == HasDotOrSlash(lang_line)
      language == IF named THEN <<>> ELSE lang_line
      filename == IF named THEN lang_line
                  ELSE FilenameBefore(response, match.start)
      is_diff == language = <<"diff">>
  IN [filename |-> IF is_diff
                   THEN DiffFilename(splitlines(block), 1, filename)
                   ELSE filename,
      content |-> escape_backticks_rp(block),
      language |-> language,
      is_diff |-> is_diff]

\* lines 196-202 and 209-215: the artifact of one diff outside a fence
PlainDiff(match) ==
  [filename |-> strip(match.g1), content |-> escape_backticks_rp(strip(match.g2)),
   language |-> <<"diff">>, is_diff |-> TRUE]

\* lines 116-150: every four-backtick block gives an artifact
FourFenceBlocks(response) ==
  LET matches == finditer("four fence", response, 1)
  IN [n \in DOMAIN matches |-> FencedBlock(response, matches[n])]

\* line 182: if filename and content
Kept(artifact) == artifact.filename /= <<>> /\ artifact.content /= <<>>

\* lines 154-189: the triple-backtick blocks that have a file name and a
\* content
TripleFenceBlocks(response) ==
  LET matches == finditer("triple fence", response, 1)
  IN SelectSeq([n \in DOMAIN matches |-> FencedBlock(response, matches[n])], Kept)

UnifiedDiffs(response) ==
  LET matches == finditer("unified diff", response, 1)
  IN [n \in DOMAIN matches |-> PlainDiff(matches[n])]

GitDiffs(response) ==
  LET matches == finditer("git diff", response, 1)
  IN [n \in DOMAIN matches |-> PlainDiff(matches[n])]

\* faulty variant of IsBlank: only the empty response is blank
IsBlankOnlyEmpty(response) == response = <<>>

\* line 18: not response or not response.strip()
IsBlank(response) == strip(response) = <<>>

\* line 85, results being empty there: no fence, and the response starts
\* with neither 'diff' nor '---'
IsRaw(response) ==
  /\ ~Contains(response, Fence3)
  /\ ~(At(response, 1, <<"diff">>) \/ At(response, 1, <<"---">>))

\* extract_code(response): the artifacts in the order the code appends them,
\* without their artifact_id, or the exception raised
ExtractCode(response) ==
  IF IsBlank(response) THEN Running(<<>>)
  ELSE LET whole == WholeJson(response)
       IN IF whole.raised /= "none" \/ whole.results /= <<>> THEN whole
          ELSE LET fenced == FencedJson(finditer("fenced json", response, 1),
                                        1, <<>>)
               IN IF fenced.raised /= "none" THEN Raised(fenced.raised)
                  ELSE IF fenced.returned THEN Running(fenced.results)
                  ELSE IF IsRaw(response) THEN Running(<<RawContent(response)>>)
                  ELSE Running(FourFenceBlocks(response)
                               \o TripleFenceBlocks(response)
                               \o UnifiedDiffs(response)
                               \o GitDiffs(response))

\* str(uuid.uuid4()) for each artifact in the order of creation: a value no
\* artifact had before
WithIds(results, uuids) ==
  [n \in DOMAIN results |->
     [k \in (DOMAIN results[n]) \cup {"artifact_id"} |->
        IF k = "artifact_id" THEN uuids + n ELSE results[n][k]]]

\* extracted before extract_code is called
NotCalled == [called |-> FALSE, raised |-> "none", results |-> <<>>]

\* one call of extract_code
extract_code(text) ==
  \E r \in {ExtractCode(text)} :
     /\ called_with' = text
     /\ extracted' = [called |-> TRUE, raised |-> r.raised,
                      results |-> WithIds(r.results, uuid_count)]
     /\ uuid_count' = uuid_count + Len(r.results)

(***************************************************************************)
(* Inputs of the model.                                                    *)
(***************************************************************************)
\* all sequences over S of length at most n
SeqsUpTo(S, n) == UNION {[1..k -> S] : k \in 0..n}

LineAlphabet == {"a", "b"}

\* the texts of at most MaxLines one-token lines, with and without a final
\* newline
Texts ==
  LET Ls == {[i \in DOMAIN w |-> <<w[i]>>] : w \in SeqsUpTo(LineAlphabet, MaxLines)}
  IN {join(l) : l \in Ls} \cup {join(l) \o <<NL>> : l \in Ls \ {<<>>}}

\* the hunk header "@@ -s,c +s,c @@"; the code reads the counts and never
\* uses them
Header(s, c) ==
  <<"@@", " ", "-", Digits[s + 1], ",", Digits[c + 1], " ", "+",
    Digits[s + 1], ",", Digits[c + 1], " ", "@@">>

\* a header without counts, "@@ -s +s @@": no match of the pattern
ShortHeader(s) == <<"@@", " ", "-", Digits[s + 1], " ", "+", Digits[s + 1], " ", "@@">>

HunkLines == {<<m, t>> : m \in {" ", "-", "+"}, t \in LineAlphabet}

Starts == 0..(MaxLines + 1)

Bodies(n) == SeqsUpTo(HunkLines, n)

\* diffs of one hunk; of two hunks of at most one line each; of a hunk that
\* replaces one line followed by a second hunk; and diffs without a
\* well-formed header
OneHunkDiffs ==
  {join(<<Header(s, 1)>> \o b) : s \in Starts, b \in Bodies(MaxHunkLines)}

TwoHunkDiffs ==
  {join(<<Header(s1, 1)>> \o b1 \o <<Header(s2, 1)>> \o b2) :
     s1 \in Starts, b1 \in Bodies(1), s2 \in Starts, b2 \in Bodies(1)}

ReplaceDiffs ==
  {join(<<Header(s1, 1), <<"-", x>>, <<"+", y>>, Header(s2, 1)>> \o b2) :
     s1 \in Starts, x \in LineAlphabet, y \in LineAlphabet,
     s2 \in Starts, b2 \in Bodies(1)}

HeaderlessDiffs ==
  {join(b) : b \in Bodies(MaxHunkLines) \ {<<>>}}
  \cup {join(<<ShortHeader(1)>> \o b) : b \in Bodies(MaxHunkLines)}

\* Scenario C of the specification: "line1", "line2", "line3" and the diff
\* "@@ -1,3 +1,3 @@", " line1", "-line2", "+line2 modified", " line3"
ScenarioC_Original == join(<< <<"line1">>, <<"line2">>, <<"line3">> >>)

ScenarioC_Diff ==
  join(<<Header(1, 3), <<" ", "line1">>, <<"-", "line2">>,
         <<"+", "line2", " ", "modified">>, <<" ", "line3">>>>)

ScenarioC_Result ==
  join(<< <<"line1">>, <<"line2", " ", "modified">>, <<"line3">> >>)

\* Scenario D: "a", "X", "c" and a diff whose second context line is " b"
ScenarioD_Original == join(<< <<"a">>, <<"X">>, <<"c">> >>)

ScenarioD_Diff ==
  join(<<Header(1, 3), <<" ", "a">>, <<" ", "b">>, <<" ", "c">>>>)

\* the lists of 1 to MaxHunkLines lines of a new file
NewFileLines == SeqsUpTo(LineAlphabet, MaxHunkLines) \ {<<>>}

\* the diff of a new file: "@@ -0,0 +1,n @@" and n addition lines
NewFileDiff(added) ==
  join(<< <<"@@", " ", "-", "0", ",", "0", " ", "+", "1", ",",
            Digits[Len(added) + 1], " ", "@@">> >>
       \o [n \in DOMAIN added |-> <<"+", added[n]>>])

Diffs ==
  OneHunkDiffs \cup TwoHunkDiffs \cup ReplaceDiffs \cup HeaderlessDiffs
  \cup {ScenarioC_Diff, ScenarioD_Diff}
  \cup {NewFileDiff(added) : added \in NewFileLines}

PatchTexts == Texts \cup {ScenarioC_Original, ScenarioD_Original}

DiffItem(filename, d) ==
  [filename |-> filename, content |-> d, language |-> "diff", is_diff |-> TRUE]

CodeItem(filename, language, c) ==
  [filename |-> filename, content |-> c, language |-> language, is_diff |-> FALSE]

(***************************************************************************)
(* SpecPatch: one file, one diff artifact applied once and once again.     *)
(***************************************************************************)
PatchFile == "a.py"

PatchPath == FilePath(PatchFile)

\* the file on disk, loaded into the buffer (the state after load_file) or
\* not loaded (the state after construction); or no file at all
InitPatch ==
  \E t \in PatchTexts, mode \in {"loaded", "on disk", "absent"} :
    /\ mode = "absent" => t = <<>>
    /\ disk = IF mode = "absent" THEN EmptyDict ELSE Put(EmptyDict, PatchPath, t)
    /\ contents = IF mode = "loaded" THEN Put(EmptyDict, PatchPath, t)
                  ELSE EmptyDict
    /\ original_contents = contents
    /\ current_files = IF mode = "loaded" THEN <<PatchPath>> ELSE <<>>
    /\ last = [op |-> "init"]
    /\ trace = <<>>
    /\ called_with = <<>> /\ extracted = NotCalled /\ uuid_count = 0
    /\ unwritable = {}

\* the text apply_result reads for the path: the buffered text, else the text
\* on disk, else the empty text (file_handler.py 184-190)
TextRead(cts, dsk, file_path) ==
  IF file_path \in DOMAIN cts THEN cts[file_path]
  ELSE IF file_path \in DOMAIN dsk THEN dsk[file_path]
  ELSE <<>>

\* a call of the trace: its input, the text it read, whether the path was
\* buffered, and what it returned
Call(result) ==
  [result |-> result, before |-> TextRead(contents, disk, PatchPath),
   buffered |-> PatchPath \in DOMAIN contents, ok |-> last'.ok]

PatchFirst ==
  /\ trace = <<>>
  /\ \E d \in Diffs :
       /\ apply_result(<<DiffItem(PatchFile, d)>>)
       /\ trace' = <<Call(<<DiffItem(PatchFile, d)>>)>>
  /\ UNCHANGED <<called_with, extracted, uuid_count, unwritable>>

PatchAgain ==
  /\ Len(trace) = 1
  /\ apply_result(trace[1].result)
  /\ trace' = Append(trace, Call(trace[1].result))
  /\ UNCHANGED <<called_with, extracted, uuid_count, unwritable>>

NextPatch == PatchFirst \/ PatchAgain

SpecPatch == InitPatch /\ [][NextPatch]_vars

(***************************************************************************)
(* What the specification says of one diff: the hunks of the diff, the     *)
(* cursor of each hunk line, and the text an application is to produce.    *)
(***************************************************************************)
LastCall == trace[Len(trace)]

HunksOf(call) == ParseHunks(splitlines(call.result[1].content), 1)

IsContext(hunk_line) == startswith(hunk_line, " ")
IsRemoval(hunk_line) == startswith(hunk_line, "-")
IsAddition(hunk_line) == startswith(hunk_line, "+")

Reads(hunk_line) == IsContext(hunk_line) \/ IsRemoval(hunk_line)

\* the number of original lines the first k lines of a hunk read
Consumed(lines, k) == Cardinality({m \in 1..k : Reads(lines[m])})

\* the 0-based cursor at line k of hunk h: the position its header names,
\* advanced by every context and removal line before line k
Cursor(h, k) == h.original_start - 1 + Consumed(h.lines, k - 1)

\* line k of hunk h agrees with the original
LineAgrees(orig, h, k) ==
  Reads(h.lines[k]) =>
    /\ Cursor(h, k) < Len(orig)
    /\ Tail(h.lines[k]) = orig[Cursor(h, k) + 1]

\* the header positions are 1-based line numbers
OneBased(hunks) == \A i \in DOMAIN hunks : hunks[i].original_start >= 1

\* ascending and non-overlapping
Ascending(hunks) ==
  \A i \in 1..(Len(hunks) - 1) :
    hunks[i + 1].original_start
      >= hunks[i].original_start + Consumed(hunks[i].lines, Len(hunks[i].lines))

Clean(orig, hunks) ==
  /\ hunks /= <<>>
  /\ OneBased(hunks)
  /\ Ascending(hunks)
  /\ \A i \in DOMAIN hunks : \A k \in DOMAIN hunks[i].lines :
       LineAgrees(orig, hunks[i], k)

\* orig[m..n], 1-based and cut at the end of orig
Slice(orig, m, n) ==
  IF m > n \/ m > Len(orig) THEN <<>>
  ELSE SubSeq(orig, m, IF n > Len(orig) THEN Len(orig) ELSE n)

\* the context and addition lines of a hunk, without their marker
RECURSIVE Emitted(_)
Emitted(lines) ==
  IF lines = <<>> THEN <<>>
  ELSE (IF IsContext(lines[1]) \/ IsAddition(lines[1])
        THEN <<Tail(lines[1])>> ELSE <<>>)
       \o Emitted(Tail(lines))

\* the lines before each hunk, the hunk's kept and added lines, and the lines
\* after the last hunk; next is the 1-based number of the next unread line
RECURSIVE Expected(_, _, _, _)
Expected(orig, hunks, i, next) ==
  IF i > Len(hunks) THEN Slice(orig, next, Len(orig))
  ELSE Slice(orig, next, hunks[i].original_start - 1)
       \o Emitted(hunks[i].lines)
       \o Expected(orig, hunks, i + 1,
                   hunks[i].original_start
                     + Consumed(hunks[i].lines, Len(hunks[i].lines)))

MismatchKinds == {"Context mismatch", "Removed line mismatch"}

\* C2: a diff that hits a context or removed-line mismatch leaves the text of
\* its path as the call found it (the buffered text, or for a path not yet
\* buffered the text on disk): no partly patched text is stored.
C2_FailedDiffStoresNothing ==
  (trace /= <<>> /\ last.err.kind \in MismatchKinds) =>
    /\ ~last.ok
    /\ PatchPath \in DOMAIN contents
    /\ contents[PatchPath] = LastCall.before

\* a second hunk fails after a first hunk had matched and removed a line
C2_Witness ==
  /\ Len(trace) = 1
  /\ LastCall.before = join(<< <<"a">>, <<"b">> >>)
  /\ LastCall.result[1].content
       = join(<<Header(1, 1), <<"-", "a">>, Header(2, 1), <<"-", "a">>>>)
  /\ last.err = RemovedMismatch(2)
  /\ contents[PatchPath] = join(<< <<"a">>, <<"b">> >>)

Disagreeing(orig, hunks) ==
  {ik \in UNION {{<<i, k>> : k \in DOMAIN hunks[i].lines} : i \in DOMAIN hunks} :
     ~LineAgrees(orig, hunks[ik[1]], ik[2])}

FirstDisagreeing(orig, hunks) ==
  CHOOSE ik \in Disagreeing(orig, hunks) :
    \A jm \in Disagreeing(orig, hunks) :
      ik[1] < jm[1] \/ (ik[1] = jm[1] /\ ik[2] <= jm[2])

ReplacesALine(hunks) ==
  /\ hunks /= <<>>
  /\ hunks[1].original_start >= 1
  /\ \E k \in 1..(Len(hunks[1].lines) - 1) :
       /\ \A m \in 1..(k - 1) : IsContext(hunks[1].lines[m])
       /\ IsRemoval(hunks[1].lines[k])
       /\ IsAddition(hunks[1].lines[k + 1])
       /\ Tail(hunks[1].lines[k]) /= Tail(hunks[1].lines[k + 1])

\* C5: once a diff that replaces a line by another text has been applied,
\* applying the same diff again to the result fails with a mismatch and
\* leaves the result as it is.
C5_ReapplicationRejected ==
  (Len(trace) = 2 /\ trace[1].ok /\ ReplacesALine(HunksOf(trace[1]))) =>
    /\ ~last.ok
    /\ last.err.kind \in MismatchKinds
    /\ contents[PatchPath] = trace[2].before

\* Scenario C applied twice
C5_Witness ==
  /\ Len(trace) = 2
  /\ trace[1].before = ScenarioC_Original
  /\ trace[1].result[1].content = ScenarioC_Diff
  /\ trace[1].ok
  /\ trace[2].before = ScenarioC_Result
  /\ last.err = RemovedMismatch(2)
  /\ contents[PatchPath] = ScenarioC_Result

\* C6: a diff without any well-formed hunk header "@@ -a,b +c,d @@" is failed
\* by the applier: the call reports an error and is no success.
C6_HeaderlessDiffFails ==
  (trace /= <<>>
   /\ \A i \in DOMAIN splitlines(LastCall.result[1].content) :
        ~HeaderMatch(splitlines(LastCall.result[1].content)[i])) =>
    ~last.ok

\* C23: the diff of a new file, "@@ -0,0 +1,n @@" and n addition lines, for
\* a path that is neither buffered nor on disk is applied to the empty text:
\* the call succeeds and the text of the path is the n lines joined by
\* newlines.
C23_NewFileDiffApplied ==
  \A added \in NewFileLines :
    (/\ Len(trace) = 1
     /\ ~LastCall.buffered /\ PatchPath \notin DOMAIN disk
     /\ LastCall.result = <<DiffItem(PatchFile, NewFileDiff(added))>>) =>
      /\ last.ok
      /\ PatchPath \in DOMAIN contents
      /\ contents[PatchPath] = join([n \in DOMAIN added |-> <<added[n]>>])

\* C25: a diff with a hunk whose start lies beyond the end of the text it
\* is applied to (past the line that follows the last one) fails: no hunk,
\* not even one of addition lines only, is accepted at another position than
\* the one its header names, with its additions appended at the end.
C25_HunkBeyondEndFails ==
  \A i \in DOMAIN trace :
    (\E h \in DOMAIN HunksOf(trace[i]) :
       HunksOf(trace[i])[h].original_start
         > Len(splitlines(trace[i].before)) + 1) =>
      ~trace[i].ok

\* every hunk of the diff of the call holds context lines only
ContextOnly(call) ==
  /\ HunksOf(call) /= <<>>
  /\ \A h \in DOMAIN HunksOf(call) :
       /\ HunksOf(call)[h].lines /= <<>>
       /\ \A n \in DOMAIN HunksOf(call)[h].lines :
            IsContext(HunksOf(call)[h].lines[n])

\* C27: a diff of context lines only, each at the line its header names,
\* that applies leaves the text of the path exactly as it was, a final
\* newline included, and a clean buffered file clean.
C27_NoChangeDiffKeepsText ==
  (/\ Len(trace) = 1 /\ trace[1].ok /\ ContextOnly(trace[1])
   /\ Clean(splitlines(trace[1].before), HunksOf(trace[1]))) =>
    /\ contents[PatchPath] = trace[1].before
    /\ trace[1].buffered => ~Dirty(contents, original_contents, PatchPath)

(***************************************************************************)
(* SpecLazy: one file on disk that was never loaded, one diff artifact      *)
(* applied to it, then a save.                                              *)
(***************************************************************************)
InitLazy ==
  \E t \in Texts :
    /\ disk = Put(EmptyDict, PatchPath, t)
    /\ contents = EmptyDict
    /\ original_contents = EmptyDict
    /\ current_files = <<>>
    /\ last = [op |-> "init"]
    /\ trace = <<>>
    /\ called_with = <<>> /\ extracted = NotCalled /\ uuid_count = 0
    /\ unwritable = {}

LazyPatch ==
  /\ trace = <<>>
  /\ \E d \in OneHunkDiffs :
       /\ apply_result(<<DiffItem(PatchFile, d)>>)
       /\ trace' = <<Call(<<DiffItem(PatchFile, d)>>)>>
  /\ UNCHANGED <<called_with, extracted, uuid_count, unwritable>>

LazySave ==
  /\ trace /= <<>>
  /\ last.op = "apply_result"
  /\ save_file
  /\ UNCHANGED <<trace, called_with, extracted, uuid_count, unwritable>>

NextLazy == LazyPatch \/ LazySave

SpecLazy == InitLazy /\ [][NextLazy]_vars

\* C26: after a diff was applied to a file on disk that was never loaded,
\* the path is dirty exactly when the patched text differs from the text
\* read from disk, and the save that follows leaves the patched text on
\* disk: a diff that removes every line leaves an empty file.
C26_LazyPatchSaved ==
  (trace /= <<>> /\ trace[1].ok) =>
    /\ last.op = "apply_result" =>
         (Dirty(contents, original_contents, PatchPath)
            <=> contents[PatchPath] /= trace[1].before)
    /\ last.op = "save_file" =>
         /\ last.ok
         /\ disk[PatchPath] = contents[PatchPath]

(***************************************************************************)
(* SpecOutside: artifacts whose file name leaves the project directory,     *)
(* under load_file, apply_result, save_file and clear.                      *)
(***************************************************************************)
\* a file name of the project, one that climbs out of it, an absolute one
OutsideNames == {"a.py", "../out.py", "/abs.py"}

\* the paths that Path.resolve() places outside the project directory
OutsidePaths == {ProjectDir \o "/../out.py", "/abs.py"}

InsideProject(file_path) == file_path \notin OutsidePaths

OutsideResults ==
  SeqsUpTo({CodeItem(f, "text", <<c>>) : f \in OutsideNames, c \in LineAlphabet},
           2) \ {<<>>}

InitOutside ==
  /\ disk \in {EmptyDict, Put(EmptyDict, FilePath("a.py"), <<"a">>)}
  /\ current_files = <<>>
  /\ contents = EmptyDict
  /\ original_contents = EmptyDict
  /\ last = [op |-> "init"]
  /\ trace = <<>>
  /\ called_with = <<>> /\ extracted = NotCalled /\ uuid_count = 0
  /\ unwritable = {}

OutsideLoad ==
  /\ \E f \in OutsideNames : load_file(<<f>>)
  /\ UNCHANGED <<trace, called_with, extracted, uuid_count, unwritable>>

OutsideApply ==
  /\ \E result \in OutsideResults : apply_result(result)
  /\ UNCHANGED <<trace, called_with, extracted, uuid_count, unwritable>>

OutsideSave ==
  save_file /\ UNCHANGED <<trace, called_with, extracted, uuid_count, unwritable>>

OutsideClear ==
  clear /\ UNCHANGED <<trace, called_with, extracted, uuid_count, unwritable>>

NextOutside == OutsideLoad \/ OutsideApply \/ OutsideSave \/ OutsideClear

SpecOutside == InitOutside /\ [][NextOutside]_vars

\* C28: whatever the calls of load_file, apply_result, save_file and clear
\* and whatever the file names of the artifacts, absolute names and names
\* with ".." included, a save writes files inside the project directory
\* only: a save changes no file outside it.
C28_WritesInsideProject ==
  [][save_file =>
       \A q \in DOMAIN disk' :
         (q \notin DOMAIN disk \/ disk'[q] /= disk[q]) => InsideProject(q)]_vars

(***************************************************************************)
(* SpecReplace: one file, one non-diff artifact applied once and once      *)
(* again.                                                                  *)
(***************************************************************************)
MaxOldLines == 3

MaxNewLines == 2

\* "a", "#a", "//b": a line of code, a comment of python, a comment of
\* javascript
OldLines == {<<"a">>, <<"#", "a">>, <<"//", "b">>}

OldTexts == {join(l) : l \in SeqsUpTo(OldLines, MaxOldLines)}

\* the contents of the artifacts: lines of the file and a line of three
\* backticks
NewContents ==
  {join(l) : l \in SeqsUpTo(OldLines \cup {Fence3}, MaxNewLines)} \ {<<>>}

ReplaceLanguages == {"python", "javascript", "text"}

InitReplace ==
  \E t \in OldTexts, mode \in {"loaded", "on disk", "absent"} :
    /\ mode = "absent" => t = <<>>
    /\ disk = IF mode = "absent" THEN EmptyDict ELSE Put(EmptyDict, PatchPath, t)
    /\ contents = IF mode = "loaded" THEN Put(EmptyDict, PatchPath, t)
                  ELSE EmptyDict
    /\ original_contents = contents
    /\ current_files = IF mode = "loaded" THEN <<PatchPath>> ELSE <<>>
    /\ last = [op |-> "init"]
    /\ trace = <<>>
    /\ called_with = <<>> /\ extracted = NotCalled /\ uuid_count = 0
    /\ unwritable = {}

ReplaceOnce ==
  /\ trace = <<>>
  /\ \E c \in NewContents, language \in ReplaceLanguages :
       /\ apply_result(<<CodeItem(PatchFile, language, c)>>)
       /\ trace' = <<Call(<<CodeItem(PatchFile, language, c)>>)>>
  /\ UNCHANGED <<called_with, extracted, uuid_count, unwritable>>

ReplaceTwice ==
  /\ Len(trace) = 1
  /\ apply_result(trace[1].result)
  /\ trace' = Append(trace, Call(trace[1].result))
  /\ UNCHANGED <<called_with, extracted, uuid_count, unwritable>>

NextReplace == ReplaceOnce \/ ReplaceTwice

SpecReplace == InitReplace /\ [][NextReplace]_vars

\* the text buffered before the last call, the empty text when the path was
\* not buffered
Previous == IF LastCall.buffered THEN LastCall.before ELSE <<>>

\* the lines of the previous text that the language of the artifact takes for
\* comments and that are no line of the new text
KeptComments(language, previous, new_text) ==
  SelectSeq(splitlines(previous),
            LAMBDA l : /\ language \in SupportedLanguages
                       /\ IsComment(language, l)
                       /\ ~InList(l, splitlines(new_text)))

\* the lines before the text
Preceded(lines, text) ==
  IF lines = <<>> THEN text ELSE join(lines) \o <<NL>> \o text

\* C22 as stated: after a non-diff artifact with file name and content, the
\* text of the path is the content of the artifact, alone or preceded by the
\* leading comment lines of the previous text that are no line of the new
\* content, and by nothing else.
C22_ContentReplaced ==
  trace /= <<>> =>
    LET item == LastCall.result[1]
    IN /\ last.ok
       /\ PatchPath \in DOMAIN contents
       /\ contents[PatchPath] \in
            {item.content,
             Preceded(SelectSeq(LeadingCommentLines(item.language,
                                                    splitlines(Previous)),
                                LAMBDA l : ~InList(l, splitlines(item.content))),
                      item.content)}

\* C22, amended: after a non-diff artifact with file name and content, the
\* text of the path is the content of the artifact with every run of three
\* backticks escaped, preceded by the comment lines of the previous text,
\* leading or not, that are no line of the new content, in their order, and
\* by nothing else ("a", "#a" replaced by "a" in python gives "#a", "a").
C22_ContentReplacedAfterComments ==
  /\ trace /= <<>> =>
       LET item == LastCall.result[1]
       IN /\ last.ok
          /\ PatchPath \in DOMAIN contents
          /\ contents[PatchPath]
               = Preceded(KeptComments(item.language, Previous,
                                       escape_backticks(item.content)),
                          escape_backticks(item.content))
  /\ (/\ Len(trace) = 1 /\ LastCall.buffered
      /\ LastCall.before = join(<< <<"a">>, <<"#", "a">> >>)
      /\ LastCall.result[1].content = <<"a">>) =>
        contents[PatchPath]
          = (IF LastCall.result[1].language = "python"
             THEN join(<< <<"#", "a">>, <<"a">> >>) ELSE <<"a">>)

\* a comment line that was not at the head of the file was kept
C22_Witness ==
  /\ Len(trace) = 1 /\ LastCall.buffered
  /\ LastCall.before = join(<< <<"a">>, <<"#", "a">> >>)
  /\ LastCall.result[1] = CodeItem(PatchFile, "python", <<"a">>)
  /\ contents[PatchPath] = join(<< <<"#", "a">>, <<"a">> >>)

\* C29: a non-diff artifact applied a second time in a row leaves the text
\* of the path as the first application made it: no comment line is
\* prepended a second time.
C29_ReplaceTwiceAsOnce ==
  Len(trace) = 2 =>
    /\ trace[1].ok /\ trace[2].ok
    /\ trace[2].buffered
    /\ PatchPath \in DOMAIN contents
    /\ contents[PatchPath] = trace[2].before

\* the first application prepended a comment line and the second one left the
\* text as it was
C29_Witness ==
  /\ Len(trace) = 2
  /\ trace[1].buffered
  /\ trace[2].before /= escape_backticks(trace[1].result[1].content)
  /\ contents[PatchPath] = trace[2].before

(***************************************************************************)
(* SpecExtract: one call of extract_code on a response made of at most     *)
(* MaxBlocks blocks, one per line.                                         *)
(***************************************************************************)
MaxBlocks == 2

CodeLine == <<"x=1">>

\* opening fence, body, closing fence
Fenced(fence, lang_line, body) ==
  fence \o lang_line \o <<NL>> \o body \o <<NL>> \o fence

UnifiedDiffText == DashA \o <<"f.py", NL>> \o PlusB \o <<"f.py", NL>> \o HunkText

GitDiffText ==
  DiffGitA \o <<"f.py">> \o SpaceB \o <<"f.py", NL>> \o UnifiedDiffText

\* Scenario A of the specification: one block labeled "python app.py" that
\* holds print("hi")
ScenarioA_Body == <<"print(\"hi\")">>

ScenarioA_Response == Fenced(Fence3, <<"python", " ", "app.py">>, ScenarioA_Body)

Blocks ==
  { <<>>, <<" ">>,
    <<"text">>, <<"some", " ", "text">>, <<"app.py">>, CodeLine,
    Fence3, Fence3 \o <<"python">>,
    Fenced(Fence3, <<>>, CodeLine),
    Fenced(Fence3, <<"python">>, CodeLine),
    Fenced(Fence3, <<"app.py">>, CodeLine),
    Fenced(Fence3, <<"python", " ", "app.py">>, CodeLine),
    Fenced(Fence4, <<>>, CodeLine),
    Fenced(Fence4, <<"python">>, CodeLine),
    Fenced(Fence3, <<"json">>, <<Doc_OneFile>>),
    Fenced(Fence3, <<"json">>, <<Doc_Lacking>>),
    Fenced(Fence3, <<"json">>, <<Doc_Diff>>),
    Fenced(Fence3, <<"diff">>, UnifiedDiffText),
    Fenced(Fence3, <<"diff">>, HunkText),
    UnifiedDiffText, GitDiffText, ScenarioA_Response }
  \cup {<<doc>> : doc \in JsonDocs}

Responses == {join(blocks) : blocks \in SeqsUpTo(Blocks, MaxBlocks)}

InitExtract ==
  /\ called_with = <<>>
  /\ extracted = NotCalled
  /\ uuid_count = 0
  /\ disk = EmptyDict
  /\ current_files = <<>>
  /\ contents = EmptyDict
  /\ original_contents = EmptyDict
  /\ last = [op |-> "init"]
  /\ trace = <<>>
  /\ unwritable = {}

Extract ==
  /\ ~extracted.called
  /\ \E text \in Responses : extract_code(text)
  /\ UNCHANGED <<disk, current_files, contents, original_contents, last, trace,
                 unwritable>>

NextExtract == Extract

SpecExtract == InitExtract /\ [][NextExtract]_vars

(***************************************************************************)
(* Claims on extract_code, checked under SpecExtract.                      *)
(***************************************************************************)
\* the artifacts without their artifact_id
WithoutIds(results) ==
  [n \in DOMAIN results |->
     [k \in (DOMAIN results[n]) \ {"artifact_id"} |-> results[n][k]]]

\* the call returned (it did not raise)
Returned == extracted.called /\ extracted.raised = "none"

\* a text of whitespace only, the empty text included
WhitespaceOnly(text) == \A i \in DOMAIN text : text[i] \in {" ", "\t", NL}

\* what each strategy yields alone on a response that is not blank: the whole
\* response as JSON, fenced JSON, diffs outside a fence, fenced code blocks,
\* the raw fallback
StrategyYields(response) ==
  << WholeJson(response).results,
     FencedJson(finditer("fenced json", response, 1), 1, <<>>).results,
     UnifiedDiffs(response) \o GitDiffs(response),
     FourFenceBlocks(response) \o TripleFenceBlocks(response),
     <<RawContent(response)>> >>

\* a response that is one fenced diff block, or one git diff, for one file
OneDiffBlock(response) ==
  response \in {Fenced(Fence3, <<"diff">>, UnifiedDiffText), GitDiffText}

\* C7: the artifacts extract returns all come from one strategy, and later
\* strategies add nothing: a response that is one fenced diff block or one
\* git diff block for one file never yields two artifacts.
C7_OneStrategyOnly ==
  (Returned /\ ~WhitespaceOnly(called_with)) =>
    /\ \E s \in DOMAIN StrategyYields(called_with) :
         WithoutIds(extracted.results) = StrategyYields(called_with)[s]
    /\ OneDiffBlock(called_with) => Len(extracted.results) <= 1

\* no structured strategy yields an artifact for the response
NoStructuredYield(response) ==
  \A s \in 1..4 : StrategyYields(response)[s] = <<>>

\* C8: for a response that is not blank, extract never returns an empty list;
\* and when no structured strategy yields an artifact (a fence marker without
\* a complete block included) it returns one artifact, with a file name that
\* is not empty and the whole trimmed response as content.
C8_FallbackWrapsResponse ==
  (Returned /\ ~WhitespaceOnly(called_with)) =>
    /\ extracted.results /= <<>>
    /\ NoStructuredYield(called_with) =>
         /\ Len(extracted.results) = 1
         /\ extracted.results[1].filename /= <<>>
         /\ extracted.results[1].content = strip(called_with)

\* C9: extract on the empty string and on a string of whitespace only
\* returns the empty list.
C9_BlankGivesNothing ==
  (extracted.called /\ WhitespaceOnly(called_with)) =>
    extracted.raised = "none" /\ extracted.results = <<>>

\* extract was called on a string of one whitespace character or more
C9_Witness ==
  /\ extracted.called /\ called_with /= <<>> /\ WhitespaceOnly(called_with)
  /\ extracted.results = <<>>

\* a response that is only one fenced block, of three or of four backticks,
\* with the body CodeLine, no file name on its fence line and no line before
OnlyOneFencedBlock(response) ==
  \E fence \in {Fence3, Fence4}, lang_line \in {<<>>, <<"python">>} :
    response = Fenced(fence, lang_line, CodeLine)

\* C10: a response that is only one fenced code block with a body and no file
\* name gives exactly one artifact, with a file name that is not empty and
\* the body of the block as content.
C10_UnnamedBlockKept ==
  (extracted.called /\ OnlyOneFencedBlock(called_with)) =>
    /\ extracted.raised = "none"
    /\ Len(extracted.results) = 1
    /\ extracted.results[1].filename /= <<>>
    /\ extracted.results[1].content = CodeLine

\* a response that is one fenced block whose fence line is a language token,
\* a space and a file name token
LanguageAndFilenameBlock(response, body) ==
  response = Fenced(Fence3, <<"python", " ", "app.py">>, body)

\* C11: a response that is one fenced block labeled with a language token and
\* a file name token (Scenario A: python app.py) gives exactly one artifact,
\* with the file name token alone as filename, the language token as
\* language and the body of the block as content.
C11_LanguageThenFilename ==
  \A body \in {CodeLine, ScenarioA_Body} :
    (extracted.called /\ LanguageAndFilenameBlock(called_with, body)) =>
      /\ extracted.raised = "none"
      /\ Len(extracted.results) = 1
      /\ extracted.results[1].filename = <<"app.py">>
      /\ extracted.results[1].language = <<"python">>
      /\ extracted.results[1].content = body

\* an item of a JSON array that has a filename and a content: an object whose
\* filename and content are strings, the filename not empty once trimmed, the
\* content not empty, and whose language, if any, is a string
HasFilenameAndContent(item) ==
  /\ item.t = "dict"
  /\ {"filename", "content"} \subseteq DOMAIN item.fields
  /\ item.fields.filename.t = "str" /\ strip(item.fields.filename.v) /= <<>>
  /\ item.fields.content.t = "str" /\ item.fields.content.v /= <<>>
  /\ "language" \in DOMAIN item.fields => item.fields.language.t = "str"

\* the JSON arrays of the model whose items all have a filename and a content
ArraysOfFiles ==
  {doc \in JsonDocs :
     /\ JsonValue(doc).t = "list"
     /\ JsonValue(doc).items /= <<>>
     /\ \A n \in DOMAIN JsonValue(doc).items :
          HasFilenameAndContent(JsonValue(doc).items[n])}

\* C12 as stated: a response that is a JSON array of objects with filename
\* and content gives one artifact per object, in the order of the array, with
\* the filename and the content of the object.
C12_OneArtifactPerObject ==
  \A doc \in ArraysOfFiles :
    (extracted.called /\ called_with = <<doc>>) =>
      /\ extracted.raised = "none"
      /\ Len(extracted.results) = Len(JsonValue(doc).items)
      /\ \A n \in DOMAIN extracted.results :
           /\ extracted.results[n].filename = JsonValue(doc).items[n].fields.filename.v
           /\ extracted.results[n].content = JsonValue(doc).items[n].fields.content.v

\* C12, amended: a response that is a JSON array of objects with filename
\* and content gives one artifact per object, in the order of the array, with
\* the filename of the object trimmed of surrounding whitespace and the
\* content of the object in which every run of three backticks is written as
\* three \u0060 escapes (Scenario B: one artifact, a.py, x=1).
C12_OneArtifactPerObjectEscaped ==
  /\ \A doc \in ArraysOfFiles :
       (extracted.called /\ called_with = <<doc>>) =>
         /\ extracted.raised = "none"
         /\ Len(extracted.results) = Len(JsonValue(doc).items)
         /\ \A n \in DOMAIN extracted.results :
              /\ extracted.results[n].filename
                   = strip(JsonValue(doc).items[n].fields.filename.v)
              /\ extracted.results[n].content
                   = escape_backticks_rp(JsonValue(doc).items[n].fields.content.v)
  /\ (extracted.called /\ called_with = <<Doc_OneFile>>) =>
        /\ Len(extracted.results) = 1
        /\ extracted.results[1].filename = <<"a.py">>
        /\ extracted.results[1].content = <<"x=1">>
  /\ (extracted.called /\ called_with = <<Doc_Padded>>) =>
        extracted.results[1].filename = <<"a.py">>
  /\ (extracted.called /\ called_with = <<Doc_Fences>>) =>
        extracted.results[1].content = <<"\\u0060", "\\u0060", "\\u0060">>

\* an array of two objects was extracted
C12_Witness ==
  /\ extracted.called
  /\ called_with = <<Doc_TwoFiles>>
  /\ Len(extracted.results) = 2
  /\ extracted.results[2].filename = <<"b.py">>

\* the response is the JSON array doc, alone or in a fenced json block
JsonResponse(response, doc) ==
  response \in {<<doc>>, Fenced(Fence3, <<"json">>, <<doc>>)}

\* C13: an artifact extracted from a JSON array, whole response or fenced,
\* is of kind diff exactly when the language of its item is "diff": the item
\* of language "diff" gives an artifact with is_diff true, the items of
\* another language or of none give artifacts with is_diff false.
C13_KindReflectsLanguage ==
  \A doc \in ArraysOfFiles :
    (Returned /\ JsonResponse(called_with, doc)) =>
      /\ Len(extracted.results) = Len(JsonValue(doc).items)
      /\ \A n \in DOMAIN extracted.results :
           extracted.results[n].is_diff
             <=> (get(JsonValue(doc).items[n], "language") = Str(<<"diff">>))

\* an item of a JSON array that lacks a filename or a content
Lacks(item) ==
  /\ item.t = "dict"
  /\ \/ "filename" \notin DOMAIN item.fields
     \/ "content" \notin DOMAIN item.fields

\* the JSON arrays of the model that hold items lacking a filename or a
\* content next to items that have both
ArraysWithLackingItems ==
  {doc \in JsonDocs :
     /\ JsonValue(doc).t = "list"
     /\ \A n \in DOMAIN JsonValue(doc).items :
          Lacks(JsonValue(doc).items[n]) \/ HasFilenameAndContent(JsonValue(doc).items[n])
     /\ \E n \in DOMAIN JsonValue(doc).items : Lacks(JsonValue(doc).items[n])
     /\ \E n \in DOMAIN JsonValue(doc).items :
          HasFilenameAndContent(JsonValue(doc).items[n])}

\* C14: in the JSON strategies an item that lacks filename or content is
\* dropped and the batch goes on: the artifacts returned are those of the
\* other items of the array, all of them, in the order of the array.
C14_LackingItemDropped ==
  /\ \A doc \in ArraysWithLackingItems :
       (extracted.called /\ JsonResponse(called_with, doc)) =>
         LET valid == SelectSeq(JsonValue(doc).items, HasFilenameAndContent)
         IN /\ extracted.raised = "none"
            /\ Len(extracted.results) = Len(valid)
            /\ \A n \in DOMAIN extracted.results :
                 /\ extracted.results[n].filename = strip(valid[n].fields.filename.v)
                 /\ extracted.results[n].content
                      = escape_backticks_rp(valid[n].fields.content.v)
  /\ (extracted.called /\ JsonResponse(called_with, Doc_Lacking)) =>
        /\ Len(extracted.results) = 2
        /\ extracted.results[1].filename = <<"a.py">>
        /\ extracted.results[1].content = <<"x=1">>
        /\ extracted.results[2].filename = <<"b.py">>
        /\ extracted.results[2].content = <<"y=2">>

\* a fenced array with two lacking items between two valid ones was extracted
C14_Witness ==
  /\ extracted.called
  /\ called_with = Fenced(Fence3, <<"json">>, <<Doc_Lacking>>)
  /\ Doc_Lacking \in ArraysWithLackingItems
  /\ Len(extracted.results) = 2

\* k git diff blocks for f.py, one after the other
GitDiffBlocks(k) == join([n \in 1..k |-> GitDiffText])

\* C15: a response of k git diff blocks gives one diff artifact per block,
\* in the order of the text, with the source file as filename and, as
\* content, the "--- a/" and "+++ b/" header pair followed by the whole body
\* of the block: every hunk header and hunk line up to the next "diff --git"
\* header or the end of the text.
C15_OneArtifactPerGitDiff ==
  \A k \in 1..MaxBlocks :
    (extracted.called /\ called_with = GitDiffBlocks(k)) =>
      /\ extracted.raised = "none"
      /\ Len(extracted.results) = k
      /\ \A n \in DOMAIN extracted.results :
           /\ extracted.results[n].filename = <<"f.py">>
           /\ extracted.results[n].is_diff
           /\ rstrip_nl(extracted.results[n].content) = UnifiedDiffText

\* C24: extract_code raises for no response: malformed JSON, a JSON value
\* that is not an array, and an array whose items have missing, null or
\* non-string fields fall through to a later strategy or lose the item, and
\* the call returns a list.
C24_NeverRaises ==
  extracted.called => extracted.raised = "none"

(***************************************************************************)
(* Spec: the buffer store under load_file, apply_result, save_file, clear. *)
(***************************************************************************)
MaxItems == 2

Filenames == {"a.py", "b.py"}

DiskText == join(<< <<"a">>, <<"b">> >>)

\* "@@ -1,1 +1,1 @@", "-a", "+b": replaces line 1
ReplaceFirst == join(<<Header(1, 1), <<"-", "a">>, <<"+", "b">>>>)

\* a first hunk that keeps line 1 and a second hunk that removes "a" at line 2
KeepThenRemove ==
  join(<<Header(1, 1), <<" ", "a">>, Header(2, 1), <<"-", "a">>>>)

\* the hunk of a new file, "@@ -0,0 +1,1 @@", "+a"
NewFile == join(<<Header(0, 0), <<"+", "a">>>>)

Items ==
  {DiffItem("a.py", ReplaceFirst), DiffItem("a.py", KeepThenRemove),
   DiffItem("b.py", NewFile), CodeItem("b.py", "python", <<"b">>)}

Results == SeqsUpTo(Items, MaxItems)

PathLists == {p \in SeqsUpTo(Filenames, MaxItems) : p /= <<>>}

\* every buffered text stays within the bounds of the model
WithinBounds(cts) ==
  \A q \in DOMAIN cts : Len(splitlines(cts[q])) <= MaxLines + 1


\* item j of result alone is well formed for the state: it has a file name and
\* a content, no other item of the list names its file, and when it is a diff
\* it applies without error
WellFormedAlone(result, j) ==
  /\ strip_name(result[j].filename) /= "" /\ result[j].content /= <<>>
  /\ \A m \in DOMAIN result :
       m /= j => strip_name(result[m].filename) /= strip_name(result[j].filename)
  /\ ApplyItem(contents, current_files, disk, result[j]).err = NoError

\* C1: when one diff of a list fails with a mismatch, every other well-formed
\* artifact of the list, those after the failing one included, is applied to
\* its buffered file.
C1_SiblingsStillApplied ==
  [][\A result \in Results :
       (apply_result(result) /\ last'.err.kind \in MismatchKinds) =>
         \A j \in DOMAIN result :
           (j /= last'.failed /\ WellFormedAlone(result, j)) =>
             LET file_path == FilePath(strip_name(result[j].filename))
             IN /\ file_path \in DOMAIN contents'
                /\ contents'[file_path]
                     = ApplyItem(contents, current_files, disk,
                                 result[j]).contents[file_path]]_vars

\* the paths the save wrote
Written(changed_files) == {changed_files[n] : n \in DOMAIN changed_files}

\* the text on disk at the path, when there is one
OnDisk(dsk, file_path) ==
  IF file_path \in DOMAIN dsk THEN <<dsk[file_path]>> ELSE <<>>

\* C17: a save writes the buffered paths whose text differs from their
\* original text (the original of a path that has none is the empty text, as
\* save_file reads it), and only those: a written path gets its buffered text
\* on disk and as its original text, a path whose texts are equal is not
\* written, and nothing else changes.  After a successful save every dirty
\* path was written and no buffered path is dirty, and a save that follows
\* immediately writes nothing.
C17_SaveWritesDirtyPaths ==
  [][save_file =>
       /\ Written(last'.changed_files) \subseteq
            {q \in Buffered(current_files) : Dirty(contents, original_contents, q)}
       /\ \A q \in Written(last'.changed_files) :
            /\ OnDisk(disk', q) = <<Get(contents, q)>>
            /\ Get(original_contents', q) = Get(contents, q)
       /\ \A q \in (DOMAIN disk' \cup DOMAIN disk \cup DOMAIN original_contents'
                       \cup Buffered(current_files))
                      \ Written(last'.changed_files) :
            /\ OnDisk(disk', q) = OnDisk(disk, q)
            /\ Get(original_contents', q) = Get(original_contents, q)
       /\ contents' = contents /\ current_files' = current_files
       /\ last'.ok =>
            /\ \A q \in Buffered(current_files) :
                 Dirty(contents, original_contents, q)
                   => q \in Written(last'.changed_files)
            /\ \A q \in Buffered(current_files') :
                 ~Dirty(contents', original_contents', q)
       /\ (last.op = "save_file" /\ last.ok) =>
            /\ last'.changed_files = <<>>
            /\ disk' = disk]_vars

\* a successful save wrote one buffered path and skipped another
C17_Witness ==
  /\ last.op = "save_file" /\ last.ok
  /\ last.changed_files /= <<>>
  /\ Buffered(current_files) \ Written(last.changed_files) /= {}
  /\ \A q \in Written(last.changed_files) : OnDisk(disk, q) = <<Get(contents, q)>>

\* C18: the original text of a buffered path is the snapshot taken when the
\* path was first loaded or first referenced by an artifact, and no load and
\* no apply_result changes it: a step of load_file or apply_result leaves
\* the original text of every path already buffered as it was (a second load
\* of the path included), and gives every path it buffers the text the path
\* has on disk at that moment (the empty text when it has none) as original.
C18_OriginalKeptUntilSave ==
  [][last'.op \in {"load_file", "apply_result"} =>
       /\ \A q \in Buffered(current_files) :
            Get(original_contents', q) = Get(original_contents, q)
       /\ \A q \in Buffered(current_files') \ Buffered(current_files) :
            Get(original_contents', q) = Get(disk, q)]_vars

\* C19: when the write of one dirty path fails during a save, the batch is
\* not aborted: every other dirty buffered path, the ones after the failing
\* path included, is written and its original text is reset to the text
\* written.
C19_FailedWriteDoesNotAbort ==
  [][(/\ save_file
      /\ \E q \in Buffered(current_files) :
           Dirty(contents, original_contents, q) /\ q \in unwritable) =>
        \A q \in Buffered(current_files) :
          (Dirty(contents, original_contents, q) /\ q \notin unwritable) =>
            /\ q \in DOMAIN disk'
            /\ disk'[q] = Get(contents, q)
            /\ Get(original_contents', q) = Get(contents, q)]_vars

\* C21: clear drops every buffered file, the dirty ones included: after it
\* the buffer holds no path, no text and no original text, and the disk is as
\* it was; a save right after writes nothing; a load or an apply_result
\* right after gives what it gives on a new, empty buffer, so that a path
\* buffered before starts from its text on disk (a.py patched from "a", "b"
\* on disk becomes "b", "b") and never from the text dropped.
C21_ClearDropsEverything ==
  [][/\ last'.op = "clear" =>
          /\ current_files' = <<>>
          /\ DOMAIN contents' = {} /\ DOMAIN original_contents' = {}
          /\ disk' = disk
     /\ (last.op = "clear" /\ last'.op = "save_file") =>
          disk' = disk /\ last'.changed_files = <<>>
     /\ (last.op = "clear" /\ last'.op = "load_file") =>
          /\ contents' = LoadFrom(EmptyDict, EmptyDict, <<>>, disk,
                                  last'.paths, 1, TRUE).contents
          /\ original_contents' = contents'
          /\ \A q \in DOMAIN contents' : contents'[q] = Get(disk, q)
     /\ \A result \in Results :
          (last.op = "clear" /\ apply_result(result)) =>
            /\ contents' = ApplyResult(EmptyDict, <<>>, disk, result).contents
            /\ (result = <<DiffItem("a.py", ReplaceFirst)>>
                 /\ FilePath("a.py") \in DOMAIN disk) =>
                 contents'[FilePath("a.py")] = join(<< <<"b">>, <<"b">> >>)]_vars

\* a clear dropped a dirty path
C21_Witness ==
  /\ last.op = "clear"
  /\ last.dropped /= {}
  /\ current_files = <<>> /\ DOMAIN contents = {}

\* C30: in every state that load_file, apply_result, save_file and clear
\* reach, failed applications of diffs included, the buffer is consistent:
\* no path is twice in current_files, every path of current_files has a text
\* in contents, and every path with an original text is in current_files.
C30_BufferConsistent ==
  /\ \A n, m \in DOMAIN current_files :
       current_files[n] = current_files[m] => n = m
  /\ Buffered(current_files) \subseteq DOMAIN contents
  /\ DOMAIN original_contents \subseteq Buffered(current_files)

\* two paths are buffered, one of them loaded, and the last call was a diff
\* that failed
C30_Witness ==
  /\ last.op = "apply_result" /\ ~last.ok
  /\ Len(current_files) = 2
  /\ DOMAIN original_contents /= {}

\* C20: in a load of several paths a path that is absent on disk is
\* reported as a failure (the load returns False) and buffers nothing, and
\* the batch goes on: every path of the call that exists on disk is buffered
\* with its text on disk as buffered text and as original text.
C20_AbsentPathDoesNotAbortLoad ==
  [][last'.op = "load_file" =>
       /\ last'.ok <=> \A n \in DOMAIN last'.paths :
                         FilePath(last'.paths[n]) \in DOMAIN disk
       /\ \A n \in DOMAIN last'.paths :
            LET file_path == FilePath(last'.paths[n])
            IN IF file_path \in DOMAIN disk
               THEN /\ file_path \in Buffered(current_files')
                    /\ file_path \in DOMAIN contents'
                    /\ file_path \in DOMAIN original_contents'
                    /\ contents'[file_path] = disk[file_path]
                    /\ original_contents'[file_path] = disk[file_path]
               ELSE /\ file_path \in Buffered(current_files')
                         <=> file_path \in Buffered(current_files)
                    /\ OnDisk(contents', file_path) = OnDisk(contents, file_path)
                    /\ OnDisk(original_contents', file_path)
                         = OnDisk(original_contents, file_path)]_vars

\* a load of an absent path followed by a path that exists returned False
\* and buffered the second path
C20_Witness ==
  /\ last.op = "load_file" /\ ~last.ok
  /\ \E n, m \in DOMAIN last.paths :
       /\ n < m
       /\ FilePath(last.paths[n]) \notin DOMAIN disk
       /\ FilePath(last.paths[m]) \in DOMAIN disk
       /\ FilePath(last.paths[m]) \in Buffered(current_files)
       /\ Get(contents, FilePath(last.paths[m])) = disk[FilePath(last.paths[m])]
       /\ Get(original_contents, FilePath(last.paths[m])) = disk[FilePath(last.paths[m])]

Init ==
  /\ disk \in {d \in UNION {[P -> {DiskText}] :
                             P \in SUBSET {FilePath(f) : f \in Filenames}} : TRUE}
  /\ current_files = <<>>
  /\ contents = EmptyDict
  /\ original_contents = EmptyDict
  /\ last = [op |-> "init"]
  /\ trace = <<>>
  /\ called_with = <<>> /\ extracted = NotCalled /\ uuid_count = 0
  /\ unwritable \in SUBSET {FilePath(f) : f \in Filenames}

Load ==
  /\ \E paths \in PathLists : load_file(paths)
  /\ UNCHANGED <<trace, called_with, extracted, uuid_count, unwritable>>

Apply ==
  /\ \E result \in Results :
       /\ WithinBounds(ApplyResult(contents, current_files, disk, result).contents)
       /\ apply_result(result)
  /\ UNCHANGED <<trace, called_with, extracted, uuid_count, unwritable>>

Save == save_file /\ UNCHANGED <<trace, called_with, extracted, uuid_count, unwritable>>

Clear == clear /\ UNCHANGED <<trace, called_with, extracted, uuid_count, unwritable>>

Next == Load \/ Apply \/ Save \/ Clear

Spec == Init /\ [][Next]_vars
====
